---- MODULE Spec2Model ----
(***************************************************************************)
(* Model of the FastAPI response-model demo: main.py (create_user,         *)
(* debug_users, root, the module-level list fake_db) and models.py         *)
(* (UserCreate, UserOut).                                                  *)
(*                                                                         *)
(* Values are tagged [t, v]: t is the Python/JSON type of the value, v its *)
(* content.  Strings that are only copied are TLA+ strings; e-mail         *)
(* addresses are sequences of characters so that EmailStr's validation and *)
(* normalisation can be computed.  A dict is a function from key names.    *)
(***************************************************************************)
EXTENDS Integers, Sequences, FiniteSets, TLC

\* Number of POST /users/ requests that may be in flight or finished.
MaxRequests == 2
\* datetime.now() returns one of the instants 1..MaxTime.
MaxTime == 2

Requests == 1..MaxRequests
Times == 1..MaxTime

VARIABLES
    fake_db,    \* main.py:8, the module-level list of db_user dicts
    pc,         \* per POST request: where it is in its life
    body,       \* per POST request: the JSON body sent by the client
    user_data,  \* per POST request: the UserCreate instance given to create_user
    ret,        \* per POST request: the dict create_user returned (db_user)
    resp,       \* per POST request: the HTTP response
    ran,        \* history: the requests whose handler body ran, in that order
    get_resp    \* the response of the latest GET request (debug_users or root)

vars == <<fake_db, pc, body, user_data, ret, resp, ran, get_resp>>

(***************************************************************************)
(* Values                                                                  *)
(***************************************************************************)
Str(s) == [t |-> "str", v |-> s]
Num(s) == [t |-> "int", v |-> s]
JsonNull == [t |-> "null", v |-> ""]
PyNone == [t |-> "none", v |-> ""]
DateTime(n) == [t |-> "datetime", v |-> n]
\* A per-request variable that has not been assigned yet.
Unset == [unset |-> TRUE]

\* datetime.isoformat(): the JSON form of a datetime is a string.
IsoFormat(d) == Str(<<"iso", d.v>>)

\* The JSON form of one Python value (str, None, datetime).
JsonValue(x) ==
    CASE x.t = "none" -> JsonNull
      [] x.t = "datetime" -> IsoFormat(x)
      [] OTHER -> x

\* The JSON form of a dict: same keys, every value encoded.
JsonEncode(d) == [k \in DOMAIN d |-> JsonValue(d[k])]

(***************************************************************************)
(* models.py: EmailStr                                                     *)
(***************************************************************************)
LowerChar(c) ==
    CASE c = "B" -> "b"
      [] c = "X" -> "x"
      [] c = "C" -> "c"
      [] OTHER -> c

Lower(s) == [i \in 1..Len(s) |-> LowerChar(s[i])]

RECURSIVE LStrip(_)
LStrip(s) == IF s # <<>> /\ Head(s) = " " THEN LStrip(Tail(s)) ELSE s

RECURSIVE RStrip(_)
RStrip(s) ==
    IF s # <<>> /\ s[Len(s)] = " " THEN RStrip(SubSeq(s, 1, Len(s) - 1)) ELSE s

Strip(s) == RStrip(LStrip(s))

Positions(s, c) == {i \in 1..Len(s) : s[i] = c}

\* EmailStr: surrounding whitespace is stripped, the address must be
\* local@domain with a dotted domain, and the domain is lower-cased.
ValidateEmail(s) ==
    LET e == Strip(s)
        ats == Positions(e, "@")
        at == CHOOSE i \in ats : TRUE
        local == SubSeq(e, 1, at - 1)
        domain == SubSeq(e, at + 1, Len(e))
        dots == Positions(domain, ".")
        ok == /\ Cardinality(ats) = 1
              /\ Positions(e, " ") = {}
              /\ local # <<>>
              /\ dots # {}
              /\ 1 \notin dots
              /\ Len(domain) \notin dots
              /\ \A i \in dots : i + 1 \notin dots
    IN  IF ok THEN [ok |-> TRUE, value |-> local \o <<"@">> \o Lower(domain)]
        ELSE [ok |-> FALSE, value |-> <<>>]

(***************************************************************************)
(* models.py: UserCreate and UserOut                                       *)
(***************************************************************************)
Err(field, type) == [loc |-> <<"body", field>>, type |-> type]

\* A required str field.
StrErrors(d, field) ==
    IF field \notin DOMAIN d THEN {Err(field, "missing")}
    ELSE IF d[field].t # "str" THEN {Err(field, "string_type")}
    ELSE {}

\* Variant of EmailErrors: the field is typed str, the syntax is not checked.
EmailErrorsNoSyntax(d, field) ==
    IF field \notin DOMAIN d THEN {Err(field, "missing")}
    ELSE IF d[field].t # "str" THEN {Err(field, "string_type")}
    ELSE {}

\* A required EmailStr field.
EmailErrors(d, field) ==
    IF field \notin DOMAIN d THEN {Err(field, "missing")}
    ELSE IF d[field].t # "str" THEN {Err(field, "string_type")}
    ELSE IF ~ValidateEmail(d[field].v).ok THEN {Err(field, "value_error")}
    ELSE {}

\* An Optional[str] = None field.
OptStrErrors(d, field) ==
    IF field \notin DOMAIN d THEN {}
    ELSE IF d[field].t \notin {"str", "null", "none"} THEN {Err(field, "string_type")}
    ELSE {}

OptStrValue(d, field) ==
    IF field \notin DOMAIN d \/ d[field].t \in {"null", "none"} THEN PyNone
    ELSE d[field]

\* A required datetime field.
DateTimeErrors(d, field) ==
    IF field \notin DOMAIN d THEN {Err(field, "missing")}
    ELSE IF d[field].t # "datetime" THEN {Err(field, "datetime_type")}
    ELSE {}

\* UserCreate(**d): the validated instance, or the validation errors.
UserCreate(d) ==
    LET errors == StrErrors(d, "username") \cup EmailErrors(d, "email")
                  \cup OptStrErrors(d, "full_name") \cup StrErrors(d, "password")
    IN  IF errors # {} THEN [ok |-> FALSE, errors |-> errors, value |-> Unset]
        ELSE [ok |-> TRUE, errors |-> {},
              value |-> [username |-> d.username,
                         email |-> Str(ValidateEmail(d.email.v).value),
                         full_name |-> OptStrValue(d, "full_name"),
                         password |-> d.password]]

\* Variant of UserOut: extra keys of the mapping are kept (extra = "allow").
UserOutKeepsAll(d) ==
    LET errors == StrErrors(d, "username") \cup EmailErrors(d, "email")
                  \cup OptStrErrors(d, "full_name") \cup DateTimeErrors(d, "join_date")
    IN  IF errors # {} THEN [ok |-> FALSE, errors |-> errors, value |-> Unset]
        ELSE [ok |-> TRUE, errors |-> {},
              value |-> [k \in DOMAIN d |->
                            CASE k = "email" -> Str(ValidateEmail(d.email.v).value)
                              [] k = "full_name" -> OptStrValue(d, "full_name")
                              [] OTHER -> d[k]]]

\* UserOut validated from a mapping: only the declared fields are read, every
\* other key of the mapping is ignored.
UserOut(d) ==
    LET errors == StrErrors(d, "username") \cup EmailErrors(d, "email")
                  \cup OptStrErrors(d, "full_name") \cup DateTimeErrors(d, "join_date")
    IN  IF errors # {} THEN [ok |-> FALSE, errors |-> errors, value |-> Unset]
        ELSE [ok |-> TRUE, errors |-> {},
              value |-> [username |-> d.username,
                         email |-> Str(ValidateEmail(d.email.v).value),
                         full_name |-> OptStrValue(d, "full_name"),
                         join_date |-> d.join_date]]

(***************************************************************************)
(* Request bodies a client may send to POST /users/                        *)
(***************************************************************************)
Without(d, k) == [x \in DOMAIN d \ {k} |-> d[x]]
With(d, k, x) == [y \in DOMAIN d \cup {k} |-> IF y = k THEN x ELSE d[y]]

EmailAlice == <<"a", "@", "x", ".", "c">>
EmailBob == <<" ", "b", "@", "X", ".", "C">>
NotAnEmail == <<"n", "o", "t", "-", "a", "n", "-", "e", "m", "a", "i", "l">>

BodyAlice ==
    [username |-> Str("alice"), email |-> Str(EmailAlice),
     full_name |-> Str("Alice A"), password |-> Str("secret")]
BodyBob ==
    [username |-> Str("bob"), email |-> Str(EmailBob), password |-> Str("hunter2")]

ValidBodies ==
    {BodyAlice, With(BodyAlice, "password", Str("hunter2")), BodyBob}
InvalidBodies ==
    {With(BodyAlice, "email", Str(NotAnEmail)), Without(BodyAlice, "email"),
     Without(BodyAlice, "password"), Without(BodyAlice, "username"),
     With(BodyAlice, "password", Num("123"))}
Bodies == ValidBodies \cup InvalidBodies

(***************************************************************************)
(* main.py                                                                 *)
(***************************************************************************)
\* Variant of DbUser: full_name is filled from the username.
DbUserSwapsNames(u, now) ==
    [username |-> u.username,
     email |-> u.email,
     full_name |-> u.username,
     join_date |-> now,
     password |-> u.password,
     hashed_password |-> Str("hashed_" \o u.password.v),
     internal_id |-> Str("secret_123"),
     api_key |-> Str("key_abc123")]

\* Lines 20-30: the dict create_user builds from the validated input.
DbUser(u, now) ==
    [username |-> u.username,
     email |-> u.email,
     full_name |-> u.full_name,
     join_date |-> now,
     password |-> u.password,
     hashed_password |-> Str("hashed_" \o u.password.v),
     internal_id |-> Str("secret_123"),
     api_key |-> Str("key_abc123")]

\* Variant of DebugUsersBody: the list of filtered fields misses one name.
DebugUsersBodyShortList(db) ==
    IF db = <<>> THEN [message |-> "No users created yet"]
    ELSE LET user == db[1]
         IN  [internal_data |-> JsonEncode(user),
              what_response_model_returns |->
                  JsonEncode([username |-> user.username,
                              email |-> user.email,
                              full_name |-> user.full_name,
                              join_date |-> user.join_date]),
              filtered_out_fields |-> <<"password", "internal_id", "api_key">>]

\* Variant of DebugUsersBody: the latest record is shown instead of the first.
DebugUsersBodyLast(db) ==
    IF db = <<>> THEN [message |-> "No users created yet"]
    ELSE LET user == db[Len(db)]
         IN  [internal_data |-> JsonEncode(user),
              what_response_model_returns |->
                  JsonEncode([username |-> user.username,
                              email |-> user.email,
                              full_name |-> user.full_name,
                              join_date |-> user.join_date]),
              filtered_out_fields |->
                  <<"password", "hashed_password", "internal_id", "api_key">>]

\* Lines 44-59: what debug_users returns for a given fake_db, as JSON.
DebugUsersBody(db) ==
    IF db = <<>> THEN [message |-> "No users created yet"]
    ELSE LET user == db[1]
         IN  [internal_data |-> JsonEncode(user),
              what_response_model_returns |->
                  JsonEncode([username |-> user.username,
                              email |-> user.email,
                              full_name |-> user.full_name,
                              join_date |-> user.join_date]),
              filtered_out_fields |->
                  <<"password", "hashed_password", "internal_id", "api_key">>]

RootBody == [message |-> "FastAPI Response Model Demo - Check /docs for interactive API"]

Init ==
    /\ fake_db = <<>>
    /\ pc = [r \in Requests |-> "idle"]
    /\ body = [r \in Requests |-> Unset]
    /\ user_data = [r \in Requests |-> Unset]
    /\ ret = [r \in Requests |-> Unset]
    /\ resp = [r \in Requests |-> Unset]
    /\ ran = <<>>
    /\ get_resp = Unset

\* A client sends POST /users/ with some JSON body.
Receive(r) ==
    /\ pc[r] = "idle"
    /\ \E b \in Bodies : body' = [body EXCEPT ![r] = b]
    /\ pc' = [pc EXCEPT ![r] = "received"]
    /\ UNCHANGED <<fake_db, user_data, ret, resp, ran, get_resp>>

\* Line 11, user_data: UserCreate.  The framework validates the body before
\* it calls create_user; on failure it answers 422 and never calls it.
Validate(r) ==
    /\ pc[r] = "received"
    /\ LET uc == UserCreate(body[r])
       IN  IF uc.ok
           THEN /\ user_data' = [user_data EXCEPT ![r] = uc.value]
                /\ pc' = [pc EXCEPT ![r] = "validated"]
                /\ UNCHANGED resp
           ELSE /\ resp' = [resp EXCEPT ![r] =
                               [status |-> 422, body |-> [detail |-> uc.errors]]]
                /\ pc' = [pc EXCEPT ![r] = "rejected"]
                /\ UNCHANGED user_data
    /\ UNCHANGED <<fake_db, body, ret, ran, get_resp>>

\* Variant of CreateUser: a dict equal to a stored one is not stored again.
CreateUserDedup(r) ==
    /\ pc[r] = "validated"
    /\ \E now \in Times :
          LET db_user == DbUser(user_data[r], DateTime(now))
          IN  /\ fake_db' = IF \E i \in 1..Len(fake_db) : fake_db[i] = db_user
                            THEN fake_db
                            ELSE Append(fake_db, db_user)
              /\ ret' = [ret EXCEPT ![r] = db_user]
    /\ ran' = Append(ran, r)
    /\ pc' = [pc EXCEPT ![r] = "returned"]
    /\ UNCHANGED <<body, user_data, resp, get_resp>>

\* Lines 11-36, the body of create_user.  It holds no await, so it runs as
\* one step of the event loop.
CreateUser(r) ==
    /\ pc[r] = "validated"
    /\ \E now \in Times :
          LET db_user == DbUser(user_data[r], DateTime(now))
          IN  /\ fake_db' = Append(fake_db, db_user)
              /\ ret' = [ret EXCEPT ![r] = db_user]
    /\ ran' = Append(ran, r)
    /\ pc' = [pc EXCEPT ![r] = "returned"]
    /\ UNCHANGED <<body, user_data, resp, get_resp>>

\* Variant of SerializeResponse: the filter deletes the undeclared keys from
\* the returned dict itself, which is the dict stored in fake_db.
SerializeResponseInPlace(r) ==
    /\ pc[r] = "returned"
    /\ LET out == UserOut(ret[r])
       IN  /\ resp' = [resp EXCEPT ![r] =
                          IF out.ok
                          THEN [status |-> 201, body |-> JsonEncode(out.value)]
                          ELSE [status |-> 500, body |-> [detail |-> out.errors]]]
           /\ fake_db' = [i \in 1..Len(fake_db) |->
                             IF ran[i] = r /\ out.ok THEN out.value ELSE fake_db[i]]
    /\ pc' = [pc EXCEPT ![r] = "done"]
    /\ UNCHANGED <<body, user_data, ret, ran, get_resp>>

\* Variant of SerializeResponse: the response is built from the latest record
\* of fake_db instead of the dict this request's handler returned.
SerializeResponseLatest(r) ==
    /\ pc[r] = "returned"
    /\ LET out == UserOut(fake_db[Len(fake_db)])
       IN  resp' = [resp EXCEPT ![r] =
                       IF out.ok
                       THEN [status |-> 201, body |-> JsonEncode(out.value)]
                       ELSE [status |-> 500, body |-> [detail |-> out.errors]]]
    /\ pc' = [pc EXCEPT ![r] = "done"]
    /\ UNCHANGED <<fake_db, body, user_data, ret, ran, get_resp>>

\* Variant of SerializeResponse: the route declares no response_model, the
\* returned dict is sent as it is.
SerializeResponseUnfiltered(r) ==
    /\ pc[r] = "returned"
    /\ resp' = [resp EXCEPT ![r] = [status |-> 201, body |-> JsonEncode(ret[r])]]
    /\ pc' = [pc EXCEPT ![r] = "done"]
    /\ UNCHANGED <<fake_db, body, user_data, ret, ran, get_resp>>

\* Line 10, response_model=UserOut, status_code=201: the returned dict is
\* validated against UserOut and the UserOut is what is sent, as JSON.
SerializeResponse(r) ==
    /\ pc[r] = "returned"
    /\ LET out == UserOut(ret[r])
       IN  resp' = [resp EXCEPT ![r] =
                       IF out.ok
                       THEN [status |-> 201, body |-> JsonEncode(out.value)]
                       ELSE [status |-> 500, body |-> [detail |-> out.errors]]]
    /\ pc' = [pc EXCEPT ![r] = "done"]
    /\ UNCHANGED <<fake_db, body, user_data, ret, ran, get_resp>>

\* Variant of DebugUsers: the record shown is taken out of fake_db (pop(0)).
DebugUsersPops ==
    /\ get_resp' = [path |-> "/debug/users/", status |-> 200,
                    body |-> DebugUsersBody(fake_db)]
    /\ fake_db' = IF fake_db = <<>> THEN fake_db ELSE Tail(fake_db)
    /\ UNCHANGED <<pc, body, user_data, ret, resp, ran>>

\* Lines 38-59, GET /debug/users/.
DebugUsers ==
    /\ get_resp' = [path |-> "/debug/users/", status |-> 200,
                    body |-> DebugUsersBody(fake_db)]
    /\ UNCHANGED <<fake_db, pc, body, user_data, ret, resp, ran>>

\* Lines 61-63, GET /.
Root ==
    /\ get_resp' = [path |-> "/", status |-> 200, body |-> RootBody]
    /\ UNCHANGED <<fake_db, pc, body, user_data, ret, resp, ran>>

Next ==
    \/ \E r \in Requests : Receive(r)
    \/ \E r \in Requests : Validate(r)
    \/ \E r \in Requests : CreateUser(r)
    \/ \E r \in Requests : SerializeResponse(r)
    \/ DebugUsers
    \/ Root

Spec == Init /\ [][Next]_vars

(***************************************************************************)
(* Properties                                                              *)
(***************************************************************************)
Range(q) == {q[i] : i \in 1..Len(q)}
\* The place of request r's record in fake_db (r's handler has run).
IndexOf(r) == CHOOSE i \in 1..Len(ran) : ran[i] = r
Ran(r) == pc[r] \in {"returned", "done"}
\* A 201 response of POST /users/.
Created(r) == resp[r] # Unset /\ resp[r].status = 201
\* The latest GET response is debug_users' view of a record.
DebugShown == get_resp # Unset /\ "internal_data" \in DOMAIN get_resp.body

\* C1: every request with a valid InputRecord ends 201 and its OutputRecord
\* has exactly the keys username, email, full_name, join_date; username,
\* email and full_name are those of the InputRecord (null for an omitted
\* full_name) and join_date is the timestamp the handler took.
C1_CreateUserReturnsDeclaredFields ==
    \A r \in Requests :
        /\ (pc[r] # "idle" /\ body[r] \in ValidBodies) => pc[r] # "rejected"
        /\ user_data[r] # Unset =>
              /\ pc[r] \in {"validated", "returned", "done"}
              /\ resp[r] # Unset => resp[r].status = 201
        /\ pc[r] = "done" =>
              /\ user_data[r] # Unset
              /\ resp[r].status = 201
              /\ DOMAIN resp[r].body = {"username", "email", "full_name", "join_date"}
              /\ resp[r].body.username = user_data[r].username
              /\ resp[r].body.username = body[r].username
              /\ resp[r].body.email = user_data[r].email
              /\ resp[r].body.full_name =
                    (IF user_data[r].full_name = PyNone THEN JsonNull
                     ELSE user_data[r].full_name)
              /\ "full_name" \notin DOMAIN body[r] => resp[r].body.full_name = JsonNull
              /\ "full_name" \in DOMAIN body[r] =>
                    resp[r].body.full_name = body[r].full_name
              /\ resp[r].body.join_date = IsoFormat(ret[r].join_date)

\* C1 witness: a finished creation whose body omitted full_name and whose
\* e-mail was normalised by validation.
W1_CreatedWithoutFullName ==
    \E r \in Requests :
        /\ pc[r] = "done"
        /\ resp[r].status = 201
        /\ "full_name" \notin DOMAIN body[r]
        /\ body[r].email # user_data[r].email

\* C2: no OutputRecord returned by createUser has a key among password,
\* hashed_password, internal_id, api_key, and its key set is a strict subset
\* of the key set of the InternalRecord it was projected from.
C2_NoSensitiveKeyReturned ==
    \A r \in Requests :
        Created(r) =>
            /\ DOMAIN resp[r].body
                  \cap {"password", "hashed_password", "internal_id", "api_key"} = {}
            /\ DOMAIN resp[r].body \subseteq DOMAIN ret[r]
            /\ DOMAIN resp[r].body # DOMAIN ret[r]
            /\ DOMAIN resp[r].body \subseteq DOMAIN fake_db[IndexOf(r)]
            /\ DOMAIN resp[r].body # DOMAIN fake_db[IndexOf(r)]

\* C2 witness: two creations have been answered.
W2_TwoCreated ==
    \E r1, r2 \in Requests : r1 # r2 /\ Created(r1) /\ Created(r2)

\* C3: a body that fails input validation (e-mail missing or malformed,
\* password missing, username missing, a field of the wrong type) is answered
\* 422 with field errors, the handler never runs for it, and the step that
\* rejects it leaves fake_db as it was.
C3_RejectedState ==
    \A r \in Requests :
        (pc[r] # "idle" /\ body[r] \in InvalidBodies) =>
            /\ pc[r] \in {"received", "rejected"}
            /\ user_data[r] = Unset
            /\ ret[r] = Unset
            /\ r \notin Range(ran)
            /\ pc[r] = "rejected" =>
                  /\ resp[r].status = 422
                  /\ resp[r].body.detail # {}
                  /\ \A e \in resp[r].body.detail :
                        /\ e.loc[1] = "body"
                        /\ e.loc[2] \in {"username", "email", "full_name", "password"}
C3_RejectedStep ==
    \A r \in Requests :
        (pc[r] = "received" /\ body[r] \in InvalidBodies /\ pc'[r] # "received") =>
            /\ pc'[r] = "rejected"
            /\ fake_db' = fake_db
C3_InvalidInputRejected == []C3_RejectedState /\ [][C3_RejectedStep]_vars

\* C3 witness: "not-an-email" was rejected while the store held a record.
W3_MalformedEmailRejected ==
    \E r \in Requests :
        /\ pc[r] = "rejected"
        /\ "email" \in DOMAIN body[r]
        /\ body[r].email = Str(NotAnEmail)
        /\ Len(fake_db) = 1

\* C4: debug_users answers {"message": "No users created yet"} when fake_db
\* is empty; otherwise internal_data has all 8 InternalRecord keys and
\* filtered_out_fields is the list password, hashed_password, internal_id,
\* api_key in that order.
C4_DebugStep ==
    (get_resp' # get_resp /\ get_resp'.path = "/debug/users/") =>
        /\ fake_db = <<>> => get_resp'.body = [message |-> "No users created yet"]
        /\ fake_db # <<>> =>
              /\ DOMAIN get_resp'.body =
                    {"internal_data", "what_response_model_returns", "filtered_out_fields"}
              /\ DOMAIN get_resp'.body.internal_data =
                    {"username", "email", "full_name", "join_date", "password",
                     "hashed_password", "internal_id", "api_key"}
              /\ get_resp'.body.filtered_out_fields =
                    <<"password", "hashed_password", "internal_id", "api_key">>
C4_DebugUsersResult == [][C4_DebugStep]_vars

\* C4 witness: debug_users has answered with a record while two are stored.
W4_DebugShowsRecord == DebugShown /\ Len(fake_db) = 2

\* C5: debug_users and root leave fake_db unchanged, and root answers the
\* same greeting whatever fake_db holds.
C5_GetStep ==
    get_resp' # get_resp =>
        /\ fake_db' = fake_db
        /\ get_resp'.path = "/" =>
              get_resp'.body =
                  [message |->
                      "FastAPI Response Model Demo - Check /docs for interactive API"]
C5_GetsAreReadOnly == [][C5_GetStep]_vars

\* C5 witness: root has answered while the store holds a record.
W5_RootWithRecords ==
    get_resp # Unset /\ get_resp.path = "/" /\ fake_db # <<>>

\* C6: a handler run appends exactly one record at the end of fake_db and
\* changes nothing else in it; nothing is removed or deduplicated, so the
\* length of fake_db is the number of handler runs, and once every request
\* is answered it is the number of requests that passed validation.
C6_StoreState ==
    /\ Len(fake_db) = Len(ran)
    /\ Len(fake_db) = Cardinality({r \in Requests : Ran(r)})
    /\ (\A r \in Requests : pc[r] \in {"idle", "rejected", "done"}) =>
          Len(fake_db) =
              Cardinality({r \in Requests : pc[r] # "idle" /\ body[r] \in ValidBodies})
C6_StoreStep ==
    /\ Len(fake_db') >= Len(fake_db)
    /\ SubSeq(fake_db', 1, Len(fake_db)) = fake_db
    /\ (\E r \in Requests : pc[r] = "validated" /\ pc'[r] = "returned") =>
          Len(fake_db') = Len(fake_db) + 1
    /\ (\A r \in Requests : ~(pc[r] = "validated" /\ pc'[r] = "returned")) =>
          fake_db' = fake_db
C6_AppendOnly == []C6_StoreState /\ [][C6_StoreStep]_vars

\* C6 witness: two creations with identical input left two equal records.
W6_DuplicateStored ==
    /\ Len(fake_db) = 2
    /\ fake_db[1] = fake_db[2]
    /\ \A r \in Requests : pc[r] = "done"

\* C7: every record of fake_db has exactly the 8 InternalRecord keys, with
\* username, email, full_name and password those of the InputRecord that
\* created it, hashed_password "hashed_" followed by the password,
\* internal_id "secret_123" and api_key "key_abc123"; building the response
\* does not change the stored record.
C7_RecordState ==
    \A i \in 1..Len(fake_db) :
        LET rec == fake_db[i]
            u == user_data[ran[i]]
        IN  /\ DOMAIN rec = {"username", "email", "full_name", "join_date", "password",
                             "hashed_password", "internal_id", "api_key"}
            /\ rec.username = u.username
            /\ rec.email = u.email
            /\ rec.full_name = u.full_name
            /\ rec.password = u.password
            /\ rec.hashed_password.t = "str"
            /\ rec.hashed_password.v = "hashed_" \o u.password.v
            /\ rec.internal_id = Str("secret_123")
            /\ rec.api_key = Str("key_abc123")
            /\ rec.join_date.t = "datetime"
            /\ rec = ret[ran[i]]
C7_ProjectionStep ==
    (\E r \in Requests : pc[r] = "returned" /\ pc'[r] = "done") => fake_db' = fake_db
C7_StoredRecordShape == []C7_RecordState /\ [][C7_ProjectionStep]_vars

\* C7 witness: a record is stored and its response has been sent.
W7_StoredAndAnswered ==
    \E r \in Requests :
        /\ pc[r] = "done"
        /\ fake_db[IndexOf(r)].password = Str("hunter2")

\* C8: once a creation succeeded, debug_users shows the record of the
\* earliest creation however many followed: internal_data is that record,
\* what_response_model_returns is that record restricted to username, email,
\* full_name, join_date, which is what createUser returned for it; from then
\* on the debug result never changes and is never the "No users created yet"
\* message.
C8_FirstState ==
    fake_db # <<>> =>
        LET first == ran[1]
            shown == DebugUsersBody(fake_db)
        IN  /\ DOMAIN shown # {"message"}
            /\ shown.internal_data = JsonEncode(ret[first])
            /\ shown.what_response_model_returns =
                  [k \in {"username", "email", "full_name", "join_date"} |->
                      shown.internal_data[k]]
            /\ pc[first] = "done" =>
                  shown.what_response_model_returns = resp[first].body
            /\ (DebugShown /\ get_resp.path = "/debug/users/") => get_resp.body = shown
C8_FirstStep ==
    fake_db # <<>> => DebugUsersBody(fake_db') = DebugUsersBody(fake_db)
C8_DebugShowsFirst == []C8_FirstState /\ [][C8_FirstStep]_vars

\* C8 witness: debug_users answered after a second, different creation.
W8_DebugAfterSecondCreation ==
    /\ Len(fake_db) = 2
    /\ fake_db[1] # fake_db[2]
    /\ pc[ran[1]] = "done"
    /\ DebugShown
    /\ get_resp.body.internal_data.username # fake_db[2].username

\* C9: under any interleaving of the requests' steps each valid request
\* appends exactly one record, in the order the handler bodies ran; no
\* stored record mixes fields of two requests; every response is the
\* projection of the request's own record; when all requests are answered
\* the store holds the records of exactly the valid requests.
C9_InterleavingSafe ==
    /\ Len(fake_db) = Len(ran)
    /\ \A i, j \in 1..Len(ran) : ran[i] = ran[j] => i = j
    /\ Range(ran) = {r \in Requests : Ran(r)}
    /\ \A i \in 1..Len(fake_db) :
          /\ fake_db[i] = DbUser(user_data[ran[i]], fake_db[i].join_date)
          /\ UserCreate(body[ran[i]]).value = user_data[ran[i]]
    /\ \A r \in Requests :
          Created(r) =>
              resp[r].body =
                  JsonEncode([k \in {"username", "email", "full_name", "join_date"} |->
                                 fake_db[IndexOf(r)][k]])
    /\ (\A r \in Requests : pc[r] \in {"rejected", "done"}) =>
          Range(ran) = {r \in Requests : body[r] \in ValidBodies}

\* C9 witness: request 2's handler ran before request 1's, request 1 was
\* answered first, and the two records differ.
W9_Interleaved ==
    /\ ran = <<2, 1>>
    /\ pc[1] = "done"
    /\ pc[2] = "returned"
    /\ fake_db[1].username # fake_db[2].username

\* C10: two valid InputRecords that agree on username, email and full_name
\* and were given the same join_date get the same status and OutputRecord,
\* whatever their passwords and whatever the store held.
C10_ResponseIgnoresPassword ==
    \A r1, r2 \in Requests :
        (/\ pc[r1] = "done"
         /\ pc[r2] = "done"
         /\ user_data[r1] # Unset
         /\ user_data[r2] # Unset
         /\ user_data[r1].username = user_data[r2].username
         /\ user_data[r1].email = user_data[r2].email
         /\ user_data[r1].full_name = user_data[r2].full_name
         /\ ret[r1].join_date = ret[r2].join_date) => resp[r1] = resp[r2]

\* C10 witness: two finished creations that differ only in the password.
W10_SameUserTwoPasswords ==
    \E r1, r2 \in Requests :
        /\ pc[r1] = "done"
        /\ pc[r2] = "done"
        /\ user_data[r1].username = user_data[r2].username
        /\ user_data[r1].password # user_data[r2].password
        /\ ret[r1].join_date = ret[r2].join_date
        /\ IndexOf(r1) < IndexOf(r2)

====
